---- MODULE Spec2Model ----
(***************************************************************************)
(* Model of sprinkler_design_app.py: the hydraulic calculator              *)
(* compute_irrigation_design, the report formatter and the handlers of     *)
(* IrrigationDesignApp (run, view_report, export_report, set_active_plot,  *)
(* show_plots, plot_pump_system_curves).                                   *)
(*                                                                         *)
(* Python floats are modelled as decimal floating-point numbers with Prec  *)
(* significant digits plus the special values inf, -inf and nan.  Every    *)
(* arithmetic operation rounds its result to Prec digits, as a binary64    *)
(* operation rounds to 53 bits.  The exponent is unbounded (no overflow to *)
(* inf) and there is no negative zero.                                     *)
(***************************************************************************)
EXTENDS Integers, Sequences, FiniteSets, TLC

\* Significant decimal digits kept by every float operation.
Prec == 7

\* Most edits of entry fields in one behaviour.
MaxEdits == 1

\* Most invocations of the calculator in one behaviour.
MaxCalls == 3

VARIABLES
    inputs,        \* self.inputs: the text of each entry field
    results,       \* self.results
    calc_display,  \* the rows of self.calc_output_frame
    report_text,   \* the text of the report viewer
    ax_pressure,   \* what self.ax_pressure shows
    ax_pump,       \* what self.ax_pump shows
    tab,           \* the selected tab of self.notebook
    file,          \* the file written by export_report
    handler,       \* the handler that ran last
    effects,       \* what that handler did, in order
    calls,         \* the calculator invocations so far: inputs and result
    n_edits        \* edits made so far

vars == <<inputs, results, calc_display, report_text, ax_pressure, ax_pump, tab,
          file, handler, effects, calls, n_edits>>

\* ------------------------------------------------------------------------
\* Decimal floating point
\* ------------------------------------------------------------------------
RECURSIVE Pow10(_)
Pow10(n) == IF n <= 0 THEN 1 ELSE 10 * Pow10(n - 1)

\* One limb of the two-limb products and sums below: 10^8.
Limb == Pow10(8)

Abs(n) == IF n < 0 THEN -n ELSE n

Sgn(n) == IF n < 0 THEN -1 ELSE 1

RECURSIVE NumDigits(_)
NumDigits(n) == IF n = 0 THEN 0 ELSE 1 + NumDigits(n \div 10)

Fin(m, e) == [k |-> "fin", m |-> m, e |-> e]

NaN == [k |-> "nan", m |-> 0, e |-> 0]

Inf(s) == [k |-> "inf", m |-> s, e |-> 0]

IsFinite(x) == x.k = "fin"

\* Canonical form: no trailing zero digit in the mantissa, zero is 0 x 10^0.
RECURSIVE Strip(_, _)
Strip(m, e) ==
    IF m = 0 THEN Fin(0, 0)
    ELSE IF Abs(m) % 10 = 0 THEN Strip(Sgn(m) * (Abs(m) \div 10), e + 1)
    ELSE Fin(m, e)

\* 1 when the low d digits of v are at least half of 10^d, else 0
RoundUp(v, d) == IF 2 * (v % Pow10(d)) >= Pow10(d) THEN 1 ELSE 0

\* s * v * 10^e for a v of n digits, rounded to Prec digits
RoundDigits(s, v, e, n) ==
    IF n <= Prec THEN Strip(s * v, e)
    ELSE Strip(s * (v \div Pow10(n - Prec) + RoundUp(v, n - Prec)), e + n - Prec)

\* s * v * 10^e rounded (half up in magnitude) to Prec digits, 0 <= v.
RoundSmall(s, v, e) == RoundDigits(s, v, e, NumDigits(v))

\* s * (hi * 10^8 + lo) * 10^e with its last d digits rounded away, 0 < hi
RoundLimbs(s, hi, lo, e, d) ==
    IF d <= 8
    THEN Strip(s * (hi * Pow10(8 - d) + lo \div Pow10(d) + RoundUp(lo, d)), e + d)
    ELSE Strip(s * (hi \div Pow10(d - 8) + RoundUp(hi, d - 8)), e + d)

\* s * (hi * 10^8 + lo) * 10^e rounded to Prec digits, 0 <= lo < 10^8, 0 <= hi.
RoundBig(s, hi, lo, e) ==
    IF hi = 0 THEN RoundSmall(s, lo, e)
    ELSE RoundLimbs(s, hi, lo, e, NumDigits(hi) + 8 - Prec)

FNeg(x) == [x EXCEPT !.m = -x.m]

\* s * (h * 10^8 + low) * 10^e with low carried into h
MulCarry(s, h, low, e) == RoundBig(s, h + low \div Limb, low % Limb, e)

\* the product of two mantissas from its partial products of 4-digit halves
MulParts(s, hh, mid, ll, e) ==
    MulCarry(s, hh + mid \div 10000, (mid % 10000) * 10000 + ll, e)

\* s * x * y * 10^e, the mantissas x and y split into 4-digit halves
MulSplit(s, xh, xl, yh, yl, e) ==
    MulParts(s, xh * yh, xh * yl + yh * xl, xl * yl, e)

\* float * float
FMul(a, b) ==
    IF a.k = "nan" \/ b.k = "nan" THEN NaN
    ELSE IF a.k = "inf" \/ b.k = "inf"
         THEN IF a.m = 0 \/ b.m = 0 THEN NaN ELSE Inf(Sgn(a.m) * Sgn(b.m))
    ELSE MulSplit(Sgn(a.m) * Sgn(b.m), Abs(a.m) \div 10000, Abs(a.m) % 10000,
                  Abs(b.m) \div 10000, Abs(b.m) % 10000, a.e + b.e)

\* Long division: digits of x / y until the quotient has more than Prec digits
\* or the remainder is zero; r < y throughout.
RECURSIVE DivDigits(_, _, _, _)
DivDigits(q, r, y, e) ==
    IF r = 0 \/ q >= Pow10(Prec) THEN <<q, e>>
    ELSE DivDigits(q * 10 + (r * 10) \div y, (r * 10) % y, y, e - 1)

\* the quotient <<q, e>> of DivDigits rounded to Prec digits
DivRound(s, qe) == RoundSmall(s, qe[1], qe[2])

\* float / float for a divisor that is not zero (Python raises
\* ZeroDivisionError before dividing by zero, see the calculator).
FDiv(a, b) ==
    IF a.k = "nan" \/ b.k = "nan" THEN NaN
    ELSE IF a.k = "inf"
         THEN IF b.k = "inf" THEN NaN ELSE Inf(Sgn(a.m) * Sgn(b.m))
    ELSE IF b.k = "inf" THEN Fin(0, 0)
    ELSE DivRound(Sgn(a.m) * Sgn(b.m),
                  DivDigits(Abs(a.m) \div Abs(b.m), Abs(a.m) % Abs(b.m),
                            Abs(b.m), a.e - b.e))

\* s * (ph * 10^8 + pl) * 10^e with pl brought into 0 .. 10^8 - 1
AddCarry(s, ph, pl, e) ==
    RoundBig(s,
             IF pl < 0 THEN ph - 1 ELSE IF pl >= Limb THEN ph + 1 ELSE ph,
             IF pl < 0 THEN pl + Limb ELSE IF pl >= Limb THEN pl - Limb ELSE pl,
             e)

\* (th * 10^8 + tl) * 10^e, negative or not, made sign-magnitude
AddSigned(neg, th, tl, e) ==
    AddCarry(IF neg THEN -1 ELSE 1, IF neg THEN -th ELSE th,
             IF neg THEN -tl ELSE tl, e)

AddLimbs(th, tl, e) == AddSigned(th < 0 \/ (th = 0 /\ tl < 0), th, tl, e)

\* s * x * 10^(b.e + diff) + b, 0 < diff <= Prec + 1: x is shifted into two
\* limbs of exponent b.e
AddShifted(s, x, diff, b) ==
    AddLimbs(s * (IF diff <= 8 THEN x \div Pow10(8 - diff)
                               ELSE x * Pow10(diff - 8)),
             s * (IF diff <= 8 THEN (x % Pow10(8 - diff)) * Pow10(diff) ELSE 0)
                 + b.m,
             b.e)

\* Sum of two finite numbers, a.e >= b.e.
AddAligned(a, b) ==
    IF a.m = 0 THEN b
    ELSE IF b.m = 0 THEN a
    ELSE IF a.e - b.e > Prec + 1 THEN a
    ELSE IF a.e = b.e
         THEN RoundSmall(Sgn(a.m + b.m), Abs(a.m + b.m), b.e)
    ELSE AddShifted(Sgn(a.m), Abs(a.m), a.e - b.e, b)

\* float + float
FAdd(a, b) ==
    IF a.k = "nan" \/ b.k = "nan" THEN NaN
    ELSE IF a.k = "inf"
         THEN IF b.k = "inf" /\ b.m # a.m THEN NaN ELSE a
    ELSE IF b.k = "inf" THEN b
    ELSE IF a.e >= b.e THEN AddAligned(a, b) ELSE AddAligned(b, a)

\* float - float
FSub(a, b) == FAdd(a, FNeg(b))

\* float(n) for a Python int n
IntToFloat(n) == RoundSmall(Sgn(n), Abs(n), 0)

\* int(x) for a finite float: truncation toward zero
Trunc(x) ==
    IF x.e >= 0 THEN x.m * Pow10(x.e)
    ELSE IF -x.e > 9 THEN 0
    ELSE Sgn(x.m) * (Abs(x.m) \div Pow10(-x.e))

\* a decimal literal of the source: digits n, d of them after the point
Dec(n, d) == Strip(n, -d)

\* a < b for finite floats
FLess(a, b) == FSub(a, b).m < 0

\* ------------------------------------------------------------------------
\* Entry fields and float(text)
\* ------------------------------------------------------------------------
LengthEW == "Field Length EW (m)"

WidthNS == "Field Width NS (m)"

CropET == "Design Crop ET (mm/day)"

EvapLoss == "Evaporation Loss (%)"

IrrTime == "Irrigation Time (hours/day)"

SpacingX == "Sprinkler Spacing X (m) [EW]"

SpacingY == "Sprinkler Spacing Y (m) [NS]"

NumZones == "Number of Zones (N_EW x N_NS)"

EndPressure == "End of Lateral Pressure (kPa)"

\* build_inputs_column: the labels and the text str(val) put into each entry
labels ==
    [x \in {LengthEW, WidthNS, CropET, EvapLoss, IrrTime, SpacingX, SpacingY,
            NumZones, EndPressure} |->
        CASE x = LengthEW    -> <<"5", "0", "0", ".", "0">>
          [] x = WidthNS     -> <<"4", "0", "0", ".", "0">>
          [] x = CropET      -> <<"1", "5", ".", "0">>
          [] x = EvapLoss    -> <<"1", "2", ".", "0">>
          [] x = IrrTime     -> <<"2", "4", ".", "0">>
          [] x = SpacingX    -> <<"6", ".", "1">>
          [] x = SpacingY    -> <<"6", ".", "1">>
          [] x = NumZones    -> <<"4", ".", "0">>
          [] x = EndPressure -> <<"1", "0", "3", ".", "0">>]

Digits == <<"0", "1", "2", "3", "4", "5", "6", "7", "8", "9">>

IsDigit(c) == \E i \in 1..10 : Digits[i] = c

DigitVal(c) == (CHOOSE i \in 1..10 : Digits[i] = c) - 1

RECURSIVE DigitsValue(_)
DigitsValue(s) ==
    IF s = <<>> THEN 0
    ELSE DigitsValue(SubSeq(s, 1, Len(s) - 1)) * 10 + DigitVal(s[Len(s)])

\* str.strip() of blanks, as float() does before parsing
RECURSIVE strip(_)
strip(t) ==
    IF t = <<>> THEN t
    ELSE IF t[1] = " " THEN strip(Tail(t))
    ELSE IF t[Len(t)] = " " THEN strip(SubSeq(t, 1, Len(t) - 1))
    ELSE t

\* float(text) of Python for a text over digits, ".", "+", "-", blank and
\* the letters a b c f i n t y: [ok |-> TRUE, v |-> the float], or ok = FALSE
\* when float() raises ValueError.
float(text) ==
    LET t      == strip(text)
        signed == t # <<>> /\ t[1] \in {"+", "-"}
        s      == IF signed /\ t[1] = "-" THEN -1 ELSE 1
        body   == IF signed THEN Tail(t) ELSE t
        dots   == {i \in 1..Len(body) : body[i] = "."}
        p      == IF dots = {} THEN Len(body) + 1 ELSE CHOOSE i \in dots : TRUE
        ip     == SubSeq(body, 1, p - 1)
        fp     == SubSeq(body, p + 1, Len(body))
    IN  IF body = <<"i", "n", "f">> \/ body = <<"i", "n", "f", "i", "n", "i", "t", "y">>
        THEN [ok |-> TRUE, v |-> Inf(s)]
        ELSE IF body = <<"n", "a", "n">> THEN [ok |-> TRUE, v |-> NaN]
        ELSE IF /\ Cardinality(dots) <= 1
                /\ Len(ip) + Len(fp) >= 1
                /\ \A i \in 1..Len(ip) : IsDigit(ip[i])
                /\ \A i \in 1..Len(fp) : IsDigit(fp[i])
             THEN [ok |-> TRUE, v |-> RoundSmall(s, DigitsValue(ip \o fp), -Len(fp))]
        ELSE [ok |-> FALSE, v |-> NaN]

\* ------------------------------------------------------------------------
\* compute_irrigation_design
\* ------------------------------------------------------------------------
\* Fixed design parameters (lines 32-35) and the layout constant (line 47)
H_MAINLINE_LOSS_M == Dec(2574, 3)

H_FITTINGS_LOSS_M == Dec(40, 1)

H_lat_loss_m == Dec(795, 3)

H_sub_loss_m == Dec(642, 3)

N_spr_zone == 33 * 41

\* the literal system-curve table (lines 62-66)
\* system_curve_points with the head of the 120 % point not above the design
\* head
system_curve_points_flat ==
    << <<Dec(12508, 2), Dec(5174, 2)>>,
       <<Dec(15635, 2), Dec(6073, 2)>>,
       <<Dec(18762, 2), Dec(6073, 2)>> >>

system_curve_points ==
    << <<Dec(12508, 2), Dec(5174, 2)>>,
       <<Dec(15635, 2), Dec(6073, 2)>>,
       <<Dec(18762, 2), Dec(7222, 2)>> >>

IsZero(x) == x.k = "fin" /\ x.m = 0

\* Messages are sequences of words.  str(e) of the ZeroDivisionError of a
\* float division:
ZeroDivisionMsg == <<"float", "division", "by", "zero">>

\* int(x): truncation, or the exception int() raises for nan and infinity
int(x) ==
    IF x.k = "nan"
    THEN [ok |-> FALSE, v |-> 0,
          err |-> <<"cannot", "convert", "float", "NaN", "to", "integer">>]
    ELSE IF x.k = "inf"
    THEN [ok |-> FALSE, v |-> 0,
          err |-> <<"cannot", "convert", "float", "infinity", "to", "integer">>]
    ELSE [ok |-> TRUE, v |-> Trunc(x), err |-> <<>>]

\* line 27
EVAP_LOSS(evap_pct) == FDiv(evap_pct, IntToFloat(100))

\* the divisor (1 - EVAP_LOSS) of lines 39 and 41
Remaining(evap) == FSub(IntToFloat(1), evap)

\* line 39, before the * 1000 of line 75
D_gross_m_day(et, evap) == FDiv(FDiv(et, IntToFloat(1000)), Remaining(evap))

\* line 40
V_crop_m3_day(area, et) == FMul(area, FDiv(et, IntToFloat(1000)))

\* V_pump_m3_day with the 12 % loss of the reference design written in
V_pump_fixed_loss(v_crop, evap) == FDiv(v_crop, Dec(88, 2))

\* line 41
V_pump_m3_day(v_crop, evap) == FDiv(v_crop, Remaining(evap))

\* line 43
Q_total_m3_s(v_pump) == FDiv(v_pump, IntToFloat(24 * 3600))

\* line 44
Q_total_GPM(q_m3_s) == FMul(q_m3_s, Dec(15850323, 3))

\* line 50
Q_zone_GPM(q_total, n_zones) == FDiv(q_total, IntToFloat(n_zones))

\* the factor (3.78541 / 60) of lines 51 and 485
LitresPerSecondPerGPM == FDiv(Dec(378541, 5), IntToFloat(60))

\* H_end_m with 10 kPa per metre of water instead of 9.806
H_end_m_round_gravity(p_kpa) == FDiv(p_kpa, IntToFloat(10))

\* line 55
H_end_m(p_kpa) == FDiv(p_kpa, Dec(9806, 3))

\* H_op_m with a safety margin of 1 m added to the sum
H_op_m_margin(h_end) ==
    FAdd(FAdd(FAdd(FAdd(FAdd(h_end, H_lat_loss_m), H_sub_loss_m),
                   H_MAINLINE_LOSS_M), H_FITTINGS_LOSS_M), IntToFloat(1))

\* line 58
H_op_m(h_end) ==
    FAdd(FAdd(FAdd(FAdd(h_end, H_lat_loss_m), H_sub_loss_m), H_MAINLINE_LOSS_M),
         H_FITTINGS_LOSS_M)

\* line 59
H_op_ft(h_op) == FMul(h_op, Dec(328084, 5))

\* BHP without the pump efficiency
BHP_water_horsepower(q_zone, h_ft) == FDiv(FMul(q_zone, h_ft), IntToFloat(3960))

\* line 70
BHP(q_zone, h_ft) == FDiv(FMul(q_zone, h_ft), FMul(IntToFloat(3960), Dec(70, 2)))

\* The local variables of the try block are kept in a record d, to which each
\* assignment adds its variable.
line_38(d) == d @@ [A_total_m2 |-> FMul(d.L_EW, d.W_NS)]

line_39(d) == d @@ [D_gross_m_day |-> D_gross_m_day(d.ET_DESIGN_MM_DAY, d.EVAP_LOSS)]

line_40(d) == d @@ [V_crop_m3_day |-> V_crop_m3_day(d.A_total_m2, d.ET_DESIGN_MM_DAY)]

line_41(d) == d @@ [V_pump_m3_day |-> V_pump_m3_day(d.V_crop_m3_day, d.EVAP_LOSS)]

line_43(d) == d @@ [Q_total_m3_s |-> Q_total_m3_s(d.V_pump_m3_day)]

line_44(d) == d @@ [Q_total_GPM |-> Q_total_GPM(d.Q_total_m3_s)]

line_50(d) == d @@ [Q_zone_GPM |-> Q_zone_GPM(d.Q_total_GPM, d.N_zones)]

line_51(d) == d @@ [Q_zone_L_s |-> FMul(d.Q_zone_GPM, LitresPerSecondPerGPM)]

line_52(d) == d @@ [qs_L_s |-> FDiv(d.Q_zone_L_s, IntToFloat(N_spr_zone))]

line_55(d) == d @@ [H_end_m |-> H_end_m(d.P_end_lateral_kPa)]

line_58(d) == d @@ [H_op_m |-> H_op_m(d.H_end_m)]

line_59(d) == d @@ [H_op_ft |-> H_op_ft(d.H_op_m)]

line_70(d) == d @@ [BHP |-> BHP(d.Q_zone_GPM, d.H_op_ft)]

\* lines 38-70 in order
lines_38_70(d) ==
    line_70(line_59(line_58(line_55(line_52(line_51(line_50(line_44(line_43(
        line_41(line_40(line_39(line_38(d)))))))))))))

\* lines 72-99: the returned dict
lines_72_99(d) ==
    [A_total_m2          |-> d.A_total_m2,
     ET_DESIGN_MM_DAY    |-> d.ET_DESIGN_MM_DAY,
     D_gross_m_day       |-> FMul(d.D_gross_m_day, IntToFloat(1000)),
     Q_total_GPM         |-> d.Q_total_GPM,
     V_pump_m3_day       |-> d.V_pump_m3_day,
     Q_total_m3_s        |-> d.Q_total_m3_s,
     Q_total_L_s         |-> FMul(d.Q_total_m3_s, IntToFloat(1000)),
     V_crop_m3_day       |-> d.V_crop_m3_day,
     Q_total_m3_hr       |-> FDiv(d.V_pump_m3_day, IntToFloat(24)),
     N_sprinkler_total   |-> N_spr_zone * d.N_zones,
     N_zones             |-> d.N_zones,
     N_spr_zone          |-> N_spr_zone,
     Q_zone_GPM          |-> d.Q_zone_GPM,
     qs_L_s              |-> d.qs_L_s,
     H_op_m              |-> d.H_op_m,
     H_op_ft             |-> d.H_op_ft,
     H_end_m             |-> d.H_end_m,
     H_lat_loss_m        |-> H_lat_loss_m,
     H_sub_loss_m        |-> H_sub_loss_m,
     H_mainline_loss_m   |-> H_MAINLINE_LOSS_M,
     H_fittings_loss_m   |-> H_FITTINGS_LOSS_M,
     BHP                 |-> d.BHP,
     system_curve_points |-> system_curve_points,
     L_zone_EW           |-> FDiv(d.L_EW, IntToFloat(2)),
     L_zone_NS           |-> FDiv(d.W_NS, IntToFloat(2)),
     h_f_80mm_lat        |-> Dec(236, 2)]

\* How the try block ends: with the exception e, of which str(e) is kept,
\* or with the returned value.
Raise(m) == [raised |-> TRUE, msg |-> m, value |-> <<>>]

Return(v) == [raised |-> FALSE, msg |-> <<>>, value |-> v]

\* lines 38-99 for the locals d of lines 24-29.  The statements run in source
\* order, so the first one that raises decides e: the division by
\* (1 - EVAP_LOSS) on line 39, then the division by N_zones on line 50.
try_from_38(d) ==
    IF IsZero(Remaining(d.EVAP_LOSS)) THEN Raise(ZeroDivisionMsg)
    ELSE IF d.N_zones = 0 THEN Raise(ZeroDivisionMsg)
    ELSE Return(lines_72_99(lines_38_70(d)))

\* try_from_24 with the daily ET concentrated into the irrigation hours of the
\* "Irrigation Time (hours/day)" entry
try_from_24_irrigation_hours(design, zones) ==
    IF ~zones.ok THEN Raise(zones.err)
    ELSE try_from_38([L_EW              |-> design[LengthEW],
                      W_NS              |-> design[WidthNS],
                      ET_DESIGN_MM_DAY  |-> FDiv(FMul(design[CropET], IntToFloat(24)),
                                                 design[IrrTime]),
                      EVAP_LOSS         |-> EVAP_LOSS(design[EvapLoss]),
                      N_zones           |-> zones.v,
                      P_end_lateral_kPa |-> design[EndPressure]])

\* lines 24-29 with zones the outcome of int() on line 28, which raises for
\* nan and infinity
try_from_24(design, zones) ==
    IF ~zones.ok THEN Raise(zones.err)
    ELSE try_from_38([L_EW              |-> design[LengthEW],
                      W_NS              |-> design[WidthNS],
                      ET_DESIGN_MM_DAY  |-> design[CropET],
                      EVAP_LOSS         |-> EVAP_LOSS(design[EvapLoss]),
                      N_zones           |-> zones.v,
                      P_end_lateral_kPa |-> design[EndPressure]])

\* str(e) of the KeyError that inputs[l] raises for a missing key: the key
\* in quotes
KeyErrorMsg(l) == <<"'", l, "'">>

\* the labels lines 24-28 read, in the order of the source
ReadBeforeInt == <<LengthEW, WidthNS, CropET, EvapLoss, NumZones>>

RECURSIVE FirstMissing(_, _)
\* the first label of lines 24-28 that the record lacks, "" if none
FirstMissing(design, i) ==
    IF i > Len(ReadBeforeInt) THEN ""
    ELSE IF ReadBeforeInt[i] \notin DOMAIN design THEN ReadBeforeInt[i]
    ELSE FirstMissing(design, i + 1)

\* The try block (lines 22-99).  design maps labels to floats.  The lookups
\* of lines 24-28 raise KeyError for the first missing label, then int() of
\* line 28 may raise, then the lookup of line 29.
try_block(design) ==
    IF FirstMissing(design, 1) # "" THEN Raise(KeyErrorMsg(FirstMissing(design, 1)))
    ELSE IF ~int(design[NumZones]).ok THEN Raise(int(design[NumZones]).err)
    ELSE IF EndPressure \notin DOMAIN design THEN Raise(KeyErrorMsg(EndPressure))
    ELSE try_from_24(design, int(design[NumZones]))

\* an except clause that catches ZeroDivisionError only: any other exception
\* reaches the caller
except_ZeroDivisionError(t) ==
    IF ~t.raised THEN t.value
    ELSE IF t.msg = ZeroDivisionMsg THEN [error |-> t.msg]
    ELSE [raise |-> t.msg]

\* lines 101-102: {"error": str(e)} for any exception raised in the try
\* block, else what the block returned
except_Exception(t) == IF t.raised THEN [error |-> t.msg] ELSE t.value

\* compute_irrigation_design keeping the last error in a variable that
\* outlives the call and returning it until it is cleared
compute_sticky_error(design) ==
    IF calls # <<>> /\ "error" \in DOMAIN calls[Len(calls)].result
    THEN calls[Len(calls)].result
    ELSE except_Exception(try_block(design))

\* compute_irrigation_design (lines 17-102)
compute_irrigation_design(design) == except_Exception(try_block(design))

\* ------------------------------------------------------------------------
\* Formatting: f"{x:.df}" and the report formatter
\* ------------------------------------------------------------------------
\* f"{x:.df}": the number rounded to d decimals, as the integer n of units of
\* 10^-d; "inf", "-inf" and "nan" are printed as such.
Format(x, d) ==
    IF x.k = "nan" THEN [k |-> "nan", n |-> 0, d |-> d]
    ELSE IF x.k = "inf" THEN [k |-> "inf", n |-> x.m, d |-> d]
    ELSE LET sh == x.e + d
         IN  [k |-> "fin",
              n |-> IF sh >= 0 THEN x.m * Pow10(sh)
                    ELSE IF -sh > 9 THEN 0
                    ELSE Sgn(x.m) * ((Abs(x.m) + 5 * Pow10(-sh - 1)) \div Pow10(-sh)),
              d |-> d]

\* f"{n}" for a Python int
FormatInt(n) == [k |-> "int", n |-> n, d |-> 0]

\* a piece of text chosen by the formatter
Words(w) == [k |-> w, n |-> 0, d |-> 0]

\* lines 698-708: one row of the system-curve table
CurveRow(pt) ==
    LET q_gpm   == pt[1]
        h_ft    == pt[2]
        q_m3_hr == FDiv(FMul(FMul(q_gpm, Dec(378541, 5)), IntToFloat(60)),
                        IntToFloat(1000))
        h_m     == FDiv(h_ft, Dec(328084, 5))
        comment == IF q_gpm = Dec(15635, 2) THEN "Design Point (100%)"
                   ELSE IF FLess(q_gpm, Dec(15635, 2)) THEN "80% of Design Flow"
                   ELSE "120% of Design Flow"
    IN  <<Format(q_gpm, 2), Format(q_m3_hr, 2), Format(h_m, 2), Format(h_ft, 2),
          Words(comment)>>

RECURSIVE CurveRows(_)
CurveRows(pts) ==
    IF pts = <<>> THEN <<>> ELSE CurveRow(Head(pts)) \o CurveRows(Tail(pts))

\* The report is modelled as the sequence of the values it interpolates, in
\* the order of the f-strings of lines 603-741; the fixed prose between them
\* is left out.  One operator per section of the source.

\* lines 606-620: crop water requirement and pump flow
ReportFlow(r) ==
    << Format(r.A_total_m2, 0),
       Format(r.V_crop_m3_day, 0),
       Format(r.V_pump_m3_day, 3),
       Format(r.V_pump_m3_day, 2),
       Format(FDiv(r.V_pump_m3_day, IntToFloat(24 * 3600)), 7),
       Format(r.Q_total_GPM, 2),
       Format(r.V_pump_m3_day, 2),
       Format(r.Q_total_m3_s, 4),
       Format(r.Q_total_GPM, 1),
       Format(r.V_crop_m3_day, 0),
       Format(r.V_pump_m3_day, 2),
       Format(r.Q_total_m3_hr, 3),
       Format(r.A_total_m2, 0) >>

\* lines 622-628: zone geometry and sprinkler counts
ReportZones(r) ==
    << FormatInt(r.N_zones),
       Format(r.L_zone_NS, 0),
       Format(r.L_zone_EW, 0),
       Format(FDiv(IntToFloat(r.N_sprinkler_total), IntToFloat(r.N_zones)), 0) >>

\* lines 644-676: the lateral, submain and mainline sizing tables
ReportSizing(r) ==
    << Format(r.h_f_80mm_lat, 2),
       Format(r.H_lat_loss_m, 3),
       Format(r.H_sub_loss_m, 3),
       Format(r.H_mainline_loss_m, 3) >>

\* lines 678-690: total dynamic head
ReportHead(r) ==
    << Format(r.H_end_m, 2),
       Format(r.H_lat_loss_m, 3),
       Format(r.H_sub_loss_m, 3),
       Format(r.H_mainline_loss_m, 3),
       Format(r.H_op_m, 3),
       Format(r.H_op_m, 3),
       Format(r.H_op_ft, 2),
       Format(r.Q_zone_GPM, 2),
       Format(r.H_op_m, 2),
       Format(r.H_op_ft, 2) >>

\* lines 710-716: pump selection
ReportPump(r) ==
    << Format(r.H_op_ft, 2),
       Format(r.H_op_m, 2),
       Format(r.BHP, 2) >>

\* lines 718-741: the summary table
ReportSummary(r) ==
    << Format(r.Q_total_m3_s, 5),
       Format(r.Q_total_GPM, 2),
       Format(FDiv(FMul(r.Q_zone_GPM, Dec(378541, 5)), IntToFloat(60)), 5),
       Format(r.Q_zone_GPM, 2),
       Format(r.H_end_m, 2),
       Format(r.H_mainline_loss_m, 3),
       Format(FMul(r.H_mainline_loss_m, Dec(328084, 5)), 2),
       Format(r.H_op_m, 2),
       Format(r.H_op_ft, 2),
       Format(r.BHP, 2) >>

\* _generate_report_content printing the area of the current entry fields
\* instead of the area of the record
_generate_report_from_entries(r) ==
    <<Format(FMul(float(inputs[LengthEW]).v, float(inputs[WidthNS]).v), 0)>>
        \o Tail(ReportFlow(r)) \o ReportZones(r) \o ReportSizing(r)
        \o ReportHead(r) \o CurveRows(r.system_curve_points) \o ReportPump(r)
        \o ReportSummary(r)

\* _generate_report_content (lines 599-743) for a result record r; an error
\* record raises KeyError on line 609 (see export_report).
_generate_report_content(r) ==
    ReportFlow(r) \o ReportZones(r) \o ReportSizing(r) \o ReportHead(r)
        \o CurveRows(r.system_curve_points) \o ReportPump(r) \o ReportSummary(r)

\* update_calcs_display: the values interpolated into the rows and their
\* justification texts, in source order (lines 325-357)
update_calcs_display(r) ==
    << Format(r.A_total_m2, 0),
       Format(r.D_gross_m_day, 2),
       Format(r.Q_total_GPM, 2),
       Format(r.Q_zone_GPM, 2),
       FormatInt(r.N_zones),
       FormatInt(r.N_zones),
       Format(r.Q_zone_GPM, 2),
       Format(IntToFloat(r.N_spr_zone), 0),
       Format(IntToFloat(r.N_spr_zone), 0),
       Format(r.qs_L_s, 4),
       Format(r.qs_L_s, 4),
       Format(r.H_end_m, 2),
       Format(r.H_end_m, 2),
       Format(FAdd(FAdd(r.H_lat_loss_m, r.H_sub_loss_m), r.H_mainline_loss_m), 3),
       Format(r.H_lat_loss_m, 3),
       Format(r.H_sub_loss_m, 3),
       Format(r.H_mainline_loss_m, 3),
       Format(r.H_op_ft, 2),
       Format(r.H_op_m, 2),
       Format(r.H_op_ft, 2),
       Format(r.Q_zone_GPM, 1),
       Format(r.H_op_ft, 1),
       Format(r.BHP, 2) >>

\* ------------------------------------------------------------------------
\* IrrigationDesignApp
\* ------------------------------------------------------------------------
\* self.results = None (line 115)
None == [none |-> TRUE]

\* The texts a user types into each entry in this model.
Typed ==
    [x \in DOMAIN labels |->
        CASE x = LengthEW    -> {<<"i", "n", "f">>}
          [] x = WidthNS     -> {<<"0">>}
          [] x = CropET      -> {<<"n", "a", "n">>}
          [] x = EvapLoss    -> {<<"1", "0", "0">>, <<"1", "5", "0">>,
                                 <<"a", "b", "c">>}
          [] x = IrrTime     -> {<<"1", "2">>}
          [] x = SpacingX    -> {<<"3", ".", "0">>}
          [] x = SpacingY    -> {<<>>}
          [] x = NumZones    -> {<<"0">>, <<"-", "2">>, <<"n", "a", "n">>}
          [] x = EndPressure -> {<<"1", "2", "0">>, <<"a", "b", "c">>}]

\* An effect of a handler: a call it makes (a drawing, a widget update, the
\* calculator) or an uncaught exception.  msg is a sequence of words.
Eff(op, msg) == [op |-> op, title |-> "", msg |-> msg]

\* A message box.
Box(op, title, msg) == [op |-> op, title |-> title, msg |-> msg]

Ops(effs) == {effs[i].op : i \in 1..Len(effs)}

InputErrorBox ==
    Box("showerror", "Input Error",
        <<"All", "input", "values", "must", "be", "valid", "numbers.">>)

Cleared == "cleared"

\* draw_pressure_profile (lines 437-471): the axes afterwards and the
\* exception raised, "" for none.  float() of the entry raises ValueError
\* after the axes were cleared.
draw_pressure_profile(res, inp) ==
    LET p == float(inp[EndPressure])
    IN  IF res # None /\ ~p.ok
        THEN [ax |-> [state |-> Cleared, P_end |-> NaN, P_max |-> NaN],
              exc |-> "ValueError"]
        ELSE LET P_end == IF res # None THEN p.v ELSE Dec(1030, 1)
             IN  [ax |-> [state |-> "drawn", P_end |-> P_end,
                          P_max |-> FMul(P_end, Dec(110, 2))],
                  exc |-> ""]

\* draw_pump_curve (lines 474-538).  An error record has no "Q_zone_GPM"
\* (KeyError, line 482); k = H_op_m / (Q * Q) raises ZeroDivisionError for a
\* zero flow (line 491); Axes.set_xlim and set_ylim raise ValueError for a
\* limit that is NaN or infinite (lines 508-509), after the curves were
\* plotted.
draw_pump_curve(res) ==
    IF res # None /\ "Q_zone_GPM" \notin DOMAIN res
    THEN [ax |-> [state |-> Cleared, Q |-> NaN, H |-> NaN], exc |-> "KeyError"]
    ELSE LET Q     == IF res # None THEN res.Q_zone_GPM ELSE Dec(15635, 2)
             H     == IF res # None THEN res.H_op_ft ELSE Dec(6073, 2)
             Q_L_s == FMul(Q, LitresPerSecondPerGPM)
             H_m   == FDiv(H, Dec(328084, 5))
             shut  == FMul(H_m, Dec(15, 1))
             xmax  == FMul(Q_L_s, Dec(22, 1))
         IN  IF IsZero(FMul(Q_L_s, Q_L_s))
             THEN [ax |-> [state |-> Cleared, Q |-> NaN, H |-> NaN],
                   exc |-> "ZeroDivisionError"]
             ELSE IF \/ xmax.k = "nan"
                     \/ (xmax.k = "inf" /\ xmax.m = 1)
                     \/ ~IsFinite(FMul(shut, Dec(11, 1)))
             THEN [ax |-> [state |-> "plotted", Q |-> Q, H |-> H],
                   exc |-> "ValueError"]
             ELSE [ax |-> [state |-> "drawn", Q |-> Q, H |-> H], exc |-> ""]

\* draw_field(); draw_pressure_profile(); draw_pump_curve() as run,
\* set_active_plot and show_plots call them: the first exception ends the
\* sequence.  draw_field draws the fixed 500 x 400 layout and cannot fail.
DrawBoth(dp, dq, axq) ==
    IF dp.exc # ""
    THEN [ax_pressure |-> dp.ax, ax_pump |-> axq, exc |-> dp.exc,
          effects |-> <<Eff("draw_field", <<>>), Eff("raise", <<dp.exc>>)>>]
    ELSE IF dq.exc # ""
    THEN [ax_pressure |-> dp.ax, ax_pump |-> dq.ax, exc |-> dq.exc,
          effects |-> <<Eff("draw_field", <<>>),
                        Eff("draw_pressure_profile", <<>>),
                        Eff("raise", <<dq.exc>>)>>]
    ELSE [ax_pressure |-> dp.ax, ax_pump |-> dq.ax, exc |-> "",
          effects |-> <<Eff("draw_field", <<>>),
                        Eff("draw_pressure_profile", <<>>),
                        Eff("draw_pump_curve", <<>>)>>]

DrawAll(res, inp, axq) ==
    DrawBoth(draw_pressure_profile(res, inp), draw_pump_curve(res), axq)

\* view_report (lines 580-596): the new text of the viewer.  The field "of"
\* is not part of the widget: it remembers the record the text was made from.
view_report(res) ==
    IF res = None THEN [kind |-> "prompt", body |-> <<>>, of |-> None]
    ELSE [kind |-> "report", body |-> _generate_report_content(res), of |-> res]

\* __init__ (lines 109-153): entries hold their defaults, nothing is computed,
\* the three plots are drawn from the defaults, the Pump Curves tab is selected.
Init ==
    /\ inputs = labels
    /\ results = None
    /\ calc_display = <<>>
    /\ report_text = [kind |-> "initial", body |-> <<>>, of |-> None]
    /\ ax_pressure = draw_pressure_profile(None, labels).ax
    /\ ax_pump = draw_pump_curve(None).ax
    /\ tab = 2
    /\ file = [written |-> FALSE, content |-> <<>>, of |-> None]
    /\ handler = "__init__"
    /\ effects = DrawAll(None, labels, ax_pump).effects
    /\ calls = <<>>
    /\ n_edits = 0

\* The user replaces the text of one entry field.
SetEntry(l, t) ==
    /\ n_edits < MaxEdits
    /\ t # inputs[l]
    /\ inputs' = [inputs EXCEPT ![l] = t]
    /\ n_edits' = n_edits + 1
    /\ handler' = "edit"
    /\ effects' = <<>>
    /\ UNCHANGED <<results, calc_display, report_text, ax_pressure, ax_pump, tab,
                   file, calls>>

\* run_input_error clearing the stored results as well
run_input_error_reset ==
    /\ effects' = <<InputErrorBox>>
    /\ results' = None
    /\ UNCHANGED <<calc_display, report_text, ax_pressure, ax_pump>>

\* run, lines 556-558: float() raised ValueError
run_input_error ==
    /\ effects' = <<InputErrorBox>>
    /\ UNCHANGED <<results, calc_display, report_text, ax_pressure, ax_pump>>

\* run, lines 567-576: the calculator returned a result record r
run_show(r) ==
    LET d == DrawAll(r, inputs, ax_pump)
    IN  /\ ax_pressure' = d.ax_pressure
        /\ ax_pump' = d.ax_pump
        /\ IF d.exc # ""
           THEN /\ effects' = <<Eff("compute_irrigation_design", <<>>)>> \o d.effects
                /\ UNCHANGED <<calc_display, report_text>>
           ELSE /\ calc_display' = update_calcs_display(r)
                /\ report_text' = view_report(r)
                /\ effects' = <<Eff("compute_irrigation_design", <<>>)>>
                       \o d.effects
                       \o <<Eff("update_calcs_display", <<>>),
                            Eff("view_report", <<>>)>>

\* run_calculation_error without the return of line 565: the handler goes on
\* to redraw the plots
run_calculation_error_no_return(r) ==
    LET d == DrawAll(r, inputs, ax_pump)
    IN  /\ ax_pressure' = d.ax_pressure
        /\ ax_pump' = d.ax_pump
        /\ effects' = <<Eff("compute_irrigation_design", <<>>),
                        Box("showerror", "Calculation Error", r.error)>>
                      \o d.effects
        /\ UNCHANGED <<calc_display, report_text>>

\* run, lines 563-565: the calculator returned an error record r
run_calculation_error(r) ==
    /\ effects' = <<Eff("compute_irrigation_design", <<>>),
                    Box("showerror", "Calculation Error", r.error)>>
    /\ UNCHANGED <<calc_display, report_text, ax_pressure, ax_pump>>

\* run (lines 551-576)
run ==
    LET parsed == [l \in DOMAIN labels |-> float(inputs[l])]
        values == [l \in DOMAIN labels |-> parsed[l].v]
        r      == compute_irrigation_design(values)
    IN  /\ handler' = "run"
        /\ UNCHANGED <<inputs, tab, file, calls, n_edits>>
        /\ IF \E l \in DOMAIN labels : ~parsed[l].ok
           THEN run_input_error
           ELSE /\ results' = r
                /\ IF "error" \in DOMAIN r
                   THEN run_calculation_error(r)
                   ELSE run_show(r)

\* set_active_plot (lines 282-294)
set_active_plot(index) ==
    /\ handler' = "set_active_plot"
    /\ UNCHANGED <<inputs, results, calc_display, report_text, file, calls, n_edits>>
    /\ IF results = None
       THEN /\ effects' = <<Box("showwarning", "Warning",
                  <<"Please", "run", "the", "calculations", "first", "to",
                    "generate", "plot", "data.">>)>>
            /\ UNCHANGED <<ax_pressure, ax_pump, tab>>
       ELSE LET d == DrawAll(results, inputs, ax_pump)
            IN  /\ ax_pressure' = d.ax_pressure
                /\ ax_pump' = d.ax_pump
                /\ IF d.exc # ""
                   THEN effects' = d.effects /\ UNCHANGED tab
                   ELSE /\ tab' = index
                        /\ effects' = d.effects \o <<Eff("select", <<"notebook">>)>>

\* show_plots (lines 360-382).  ttk.PanedWindow has neither select nor index
\* (line 372): after the redraw the handler ends with AttributeError and no
\* tab is selected, whatever active_tab is.
show_plots ==
    /\ handler' = "show_plots"
    /\ UNCHANGED <<inputs, results, calc_display, report_text, file, calls, n_edits,
                   tab>>
    /\ IF results = None
       THEN /\ effects' = <<Box("showwarning", "Warning",
                  <<"Please", "run", "the", "calculations", "first", "to",
                    "generate", "the", "necessary", "plot", "data.">>)>>
            /\ UNCHANGED <<ax_pressure, ax_pump>>
       ELSE LET d == DrawAll(results, inputs, ax_pump)
            IN  /\ ax_pressure' = d.ax_pressure
                /\ ax_pump' = d.ax_pump
                /\ effects' = IF d.exc # "" THEN d.effects
                              ELSE d.effects \o <<Eff("raise", <<"AttributeError">>)>>

\* plot_pump_system_curves (lines 541-548): draw_pump_curve, then
\* set_active_plot(2)
plot_pump_system_curves ==
    /\ handler' = "plot_pump_system_curves"
    /\ UNCHANGED <<inputs, results, calc_display, report_text, file, calls, n_edits>>
    /\ IF results = None
       THEN /\ effects' = <<Box("showwarning", "Error",
                  <<"Run", "calculations", "first", "to", "determine", "the",
                    "operating", "point.">>)>>
            /\ UNCHANGED <<ax_pressure, ax_pump, tab>>
       ELSE LET first == draw_pump_curve(results)
            IN  IF first.exc # ""
                THEN /\ ax_pump' = first.ax
                     /\ effects' = <<Eff("raise", <<first.exc>>)>>
                     /\ UNCHANGED <<ax_pressure, tab>>
                ELSE LET d == DrawAll(results, inputs, first.ax)
                     IN  /\ ax_pressure' = d.ax_pressure
                         /\ ax_pump' = d.ax_pump
                         /\ IF d.exc # ""
                            THEN /\ effects' = <<Eff("draw_pump_curve", <<>>)>>
                                                \o d.effects
                                 /\ UNCHANGED tab
                            ELSE /\ tab' = 2
                                 /\ effects' = <<Eff("draw_pump_curve", <<>>)>>
                                        \o d.effects
                                        \o <<Eff("select", <<"notebook">>)>>

\* export_report without the guard of lines 747-749
export_report_no_guard(path) ==
    /\ handler' = "export_report"
    /\ UNCHANGED <<inputs, results, calc_display, report_text, ax_pressure,
                   ax_pump, tab, calls, n_edits>>
    /\ IF path = ""
       THEN /\ effects' = <<Eff("asksaveasfilename", <<path>>)>>
            /\ UNCHANGED file
       ELSE IF "A_total_m2" \notin DOMAIN results
       THEN /\ effects' = <<Eff("asksaveasfilename", <<path>>),
                            Eff("raise", <<"KeyError">>)>>
            /\ UNCHANGED file
       ELSE /\ file' = [written |-> TRUE,
                        content |-> _generate_report_content(results),
                        of |-> results]
            /\ effects' = <<Eff("asksaveasfilename", <<path>>),
                            Eff("write", <<path>>),
                            Box("showinfo", "Report Generated", <<path>>)>>

\* export_report (lines 745-761).  path is what the save dialog returns, ""
\* when the user cancels it.  The field "of" of the file is not written: it
\* remembers the record the content was made from.
export_report(path) ==
    /\ handler' = "export_report"
    /\ UNCHANGED <<inputs, results, calc_display, report_text, ax_pressure,
                   ax_pump, tab, calls, n_edits>>
    /\ IF results = None
       THEN /\ effects' = <<Box("showwarning", "Error",
                                    <<"Run", "calculations", "first">>)>>
            /\ UNCHANGED file
       ELSE IF path = ""
       THEN /\ effects' = <<Eff("asksaveasfilename", <<path>>)>>
            /\ UNCHANGED file
       ELSE IF "A_total_m2" \notin DOMAIN results
       THEN /\ effects' = <<Eff("asksaveasfilename", <<path>>),
                            Eff("raise", <<"KeyError">>)>>
            /\ UNCHANGED file
       ELSE /\ file' = [written |-> TRUE,
                        content |-> _generate_report_content(results),
                        of |-> results]
            /\ effects' = <<Eff("asksaveasfilename", <<path>>),
                            Eff("write", <<path>>),
                            Box("showinfo", "Report Generated", <<path>>)>>

Next ==
    \/ \E l \in DOMAIN labels : \E t \in Typed[l] \cup {labels[l]} : SetEntry(l, t)
    \/ run
    \/ \E index \in 0..2 : set_active_plot(index)
    \/ show_plots
    \/ plot_pump_system_curves
    \/ \E path \in {"", "report.txt"} : export_report(path)

Spec == Init /\ [][Next]_vars

\* ------------------------------------------------------------------------
\* The calculator on its own: a sequence of invocations
\* ------------------------------------------------------------------------
\* the reference input of build_inputs_column with some entries replaced
Rec(over) ==
    [l \in DOMAIN labels |->
        IF l \in DOMAIN over THEN float(over[l]).v ELSE float(labels[l]).v]

\* The input records the calculator is invoked with in this model.
Records ==
    { Rec(<<>>),
      Rec([l \in {EvapLoss} |-> <<"0">>]),
      Rec([l \in {EvapLoss} |-> <<"1", "0", "0">>]),
      Rec([l \in {EvapLoss} |-> <<"1", "5", "0">>]),
      Rec([l \in {NumZones} |-> <<"1">>]),
      Rec([l \in {NumZones} |-> <<"0">>]),
      Rec([l \in {NumZones} |-> <<"0", ".", "5">>]),
      Rec([l \in {NumZones} |-> <<"-", "2">>]),
      Rec([l \in {NumZones} |-> <<"n", "a", "n">>]),
      Rec([l \in {LengthEW} |-> <<"i", "n", "f">>]),
      Rec([l \in {LengthEW, EvapLoss, NumZones, EndPressure} |->
              CASE l = LengthEW    -> <<"2", "5", "0">>
                [] l = EvapLoss    -> <<"0">>
                [] l = NumZones    -> <<"1">>
                [] l = EndPressure -> <<"1", "2", "0">>]),
      Rec([l \in {EvapLoss, NumZones} |->
              CASE l = EvapLoss -> <<"1", "0", "0">>
                [] l = NumZones -> <<"0">>]) }

\* one invocation compute_irrigation_design(v); the log keeps its input and
\* what it returned
Invoke(v) ==
    /\ Len(calls) < MaxCalls
    /\ calls' = Append(calls, [inputs |-> v, result |-> compute_irrigation_design(v)])
    /\ UNCHANGED <<inputs, results, calc_display, report_text, ax_pressure, ax_pump,
                   tab, file, handler, effects, n_edits>>

NextCalc == \E v \in Records : Invoke(v)

SpecCalc == Init /\ [][NextCalc]_vars

\* a record without the labels of S
Without(design, S) == [l \in DOMAIN design \ S |-> design[l]]

\* Input records that lack a field: one the calculator reads first, one it
\* reads last, one it reads after an int() that raises, one it never reads,
\* and the empty record.
PartialRecords ==
    { Without(Rec(<<>>), {LengthEW}),
      Without(Rec(<<>>), {EndPressure}),
      Without(Rec([l \in {NumZones} |-> <<"n", "a", "n">>]), {EndPressure}),
      Without(Rec(<<>>), {IrrTime}),
      Without(Rec(<<>>), DOMAIN labels) }

\* the calculator invoked with any record, complete or not
NextCalcAny == \E v \in Records \cup PartialRecords : Invoke(v)

SpecCalcAny == Init /\ [][NextCalcAny]_vars

\* ------------------------------------------------------------------------
\* Properties
\* ------------------------------------------------------------------------
IsResultRecord(r) == "A_total_m2" \in DOMAIN r

IsErrorRecord(r) == "error" \in DOMAIN r

\* the names by which a message can identify an entry field: its label, the
\* variable of the calculator, the name of the design document
FieldNames(l) ==
    {l} \cup
    CASE l = EvapLoss -> {"Evaporation", "EVAP_LOSS", "evaporationLossPct"}
      [] l = NumZones -> {"Zones", "N_zones", "zoneCount"}
      [] OTHER        -> {}

NamesField(msg, l) == \E i \in 1..Len(msg) : msg[i] \in FieldNames(l)

\* the float fields of a result record
FloatFields ==
    {"A_total_m2", "ET_DESIGN_MM_DAY", "D_gross_m_day", "Q_total_GPM",
     "V_pump_m3_day", "Q_total_m3_s", "Q_total_L_s", "V_crop_m3_day",
     "Q_total_m3_hr", "Q_zone_GPM", "qs_L_s", "H_op_m", "H_op_ft", "H_end_m",
     "H_lat_loss_m", "H_sub_loss_m", "H_mainline_loss_m", "H_fittings_loss_m",
     "BHP", "L_zone_EW", "L_zone_NS", "h_f_80mm_lat"}

AllParse == \A l \in DOMAIN labels : float(inputs[l]).ok

\* the record run passes to the calculator for the current entries
Values == [l \in DOMAIN labels |-> float(inputs[l]).v]

\* C1: in every result record the calculator returns, H_op_m is exactly
\* H_end_m + H_lat_loss_m + H_sub_loss_m + H_mainline_loss_m +
\* H_fittings_loss_m of that record, summed in this order, nothing else added.
\* Equality is identity of the float values, as in "bit-identical".
C1_SumInvariant ==
    \A i \in 1..Len(calls) :
        LET r == calls[i].result
        IN  IsResultRecord(r) =>
                r.H_op_m = FAdd(FAdd(FAdd(FAdd(r.H_end_m, r.H_lat_loss_m),
                                          r.H_sub_loss_m),
                                     r.H_mainline_loss_m),
                                r.H_fittings_loss_m)

\* a result record for an end pressure other than the reference 103 kPa
C1_Witness ==
    \E i \in 1..Len(calls) :
        /\ IsResultRecord(calls[i].result)
        /\ calls[i].inputs[EndPressure] = Dec(120, 0)

\* C2: for an evaporation loss of exactly 100 the calculator returns no
\* result record but an error whose message names the evaporation-loss field.
C2_EvapErrorNamesField ==
    \A i \in 1..Len(calls) :
        calls[i].inputs[EvapLoss] = Dec(100, 0) =>
            /\ IsErrorRecord(calls[i].result)
            /\ NamesField(calls[i].result.error, EvapLoss)

\* C3: when int() of the zone count is 0 the calculator returns no result
\* record but an error whose message identifies the zone-count field.
C3_ZeroZonesErrorNamesField ==
    \A i \in 1..Len(calls) :
        LET z == int(calls[i].inputs[NumZones])
        IN  (z.ok /\ z.v = 0) =>
                /\ IsErrorRecord(calls[i].result)
                /\ NamesField(calls[i].result.error, NumZones)

\* the entries parse to an evaporation loss above 100 or to a negative zone
\* count: out of domain, and nothing divides by zero
OutOfDomain ==
    /\ AllParse
    /\ \/ /\ IsFinite(Values[EvapLoss])
          /\ FLess(Dec(100, 0), Values[EvapLoss])
          /\ int(Values[NumZones]).ok /\ int(Values[NumZones]).v # 0
       \/ /\ int(Values[NumZones]).ok /\ int(Values[NumZones]).v < 0
          /\ Values[EvapLoss] # Dec(100, 0)

\* C4: a run on entries that are out of domain produces no result record: it
\* ends with an error box naming the offending field, and neither the stored
\* results, the calculations display nor the report viewer holds values
\* computed from these entries.
C4_OutOfDomainRejected ==
    (handler = "run" /\ OutOfDomain) =>
        LET r == compute_irrigation_design(Values)
        IN  /\ IsErrorRecord(r)
            /\ \E i \in 1..Len(effects) :
                   /\ effects[i].op = "showerror"
                   /\ \E l \in {EvapLoss, NumZones} : NamesField(effects[i].msg, l)
            /\ results # r
            /\ report_text.of # r

\* C5: neither the stored results nor the report in the viewer holds a NaN
\* or an infinity.
C5_NoNonFinite ==
    /\ IsResultRecord(results) => \A f \in FloatFields : IsFinite(results[f])
    /\ \A i \in 1..Len(report_text.body) : report_text.body[i].k \notin {"inf", "nan"}

\* C6: a run on entries of which one does not parse as a number shows the
\* input error box and nothing else (the calculator is not invoked), and
\* leaves the stored results, the calculations display, the plots, the
\* selected tab, the report viewer and the exported file as they were.
C6_InputErrorFrame ==
    [][(handler' = "run" /\ ~AllParse) =>
          /\ effects' = <<InputErrorBox>>
          /\ UNCHANGED <<results, calc_display, report_text, ax_pressure, ax_pump,
                         tab, file>>]_vars

\* a run ended with the input error while results of an earlier run are
\* stored and shown
C6_Witness ==
    /\ handler = "run"
    /\ effects = <<InputErrorBox>>
    /\ IsResultRecord(results)
    /\ calc_display # <<>>
    /\ report_text.kind = "report"

\* C7: a run in which the calculator returns an error record shows that
\* error and does nothing else: no plot is redrawn, the calculations display
\* and the report viewer are not rebuilt, and what is stored is the error
\* record itself, not defaults.
C7_ErrorStopsRun ==
    [][(/\ handler' = "run"
        /\ "compute_irrigation_design" \in Ops(effects')
        /\ IsErrorRecord(results')) =>
          /\ effects' = <<Eff("compute_irrigation_design", <<>>),
                          Box("showerror", "Calculation Error", results'.error)>>
          /\ DOMAIN results' = {"error"}
          /\ UNCHANGED <<calc_display, report_text, ax_pressure, ax_pump, tab>>]_vars

\* a run ended with a calculation error while an earlier run is on display
C7_Witness ==
    /\ handler = "run"
    /\ IsErrorRecord(results)
    /\ Len(effects) = 2 /\ effects[2].title = "Calculation Error"
    /\ calc_display # <<>>
    /\ report_text.kind = "report"
    /\ ax_pump.state = "drawn"

C10_Boundary ==
    \A i \in 1..Len(calls) :
        LET r == calls[i].result
            v == calls[i].inputs
        IN  IsResultRecord(r) =>
                /\ IsZero(v[EvapLoss]) => r.V_pump_m3_day = r.V_crop_m3_day
                /\ int(v[NumZones]).v = 1 => r.Q_zone_GPM = r.Q_total_GPM

\* a result record for evaporation loss 0 and one zone
C10_Witness ==
    \E i \in 1..Len(calls) :
        /\ IsResultRecord(calls[i].result)
        /\ IsZero(calls[i].inputs[EvapLoss])
        /\ int(calls[i].inputs[NumZones]).v = 1
        /\ IsFinite(calls[i].result.V_pump_m3_day)
        /\ ~IsZero(calls[i].result.Q_zone_GPM)

\* |x|
FAbs(x) == [x EXCEPT !.m = Abs(x.m)]

\* x is a number within tol of c
Within(x, c, tol) == IsFinite(x) /\ ~FLess(tol, FAbs(FSub(x, c)))

\* the reference inputs: the defaults of build_inputs_column
Reference == Rec(<<>>)

\* an input record the design document calls valid: finite numbers, a
\* positive area and ET, 0 <= evaporation loss < 100, at least one zone
ValidInput(v) ==
    /\ \A l \in DOMAIN v : IsFinite(v[l])
    /\ v[LengthEW].m > 0 /\ v[WidthNS].m > 0 /\ v[CropET].m > 0
    /\ v[EvapLoss].m >= 0 /\ FLess(v[EvapLoss], Dec(100, 0))
    /\ Trunc(v[NumZones]) >= 1

\* C11: in every result record for a valid input the three system-curve
\* points, in the order 80 %, 100 %, 120 %, are strictly increasing in flow
\* and strictly increasing in head.
C11_CurveMonotone ==
    \A i \in 1..Len(calls) :
        LET r == calls[i].result
        IN  (ValidInput(calls[i].inputs) /\ IsResultRecord(r)) =>
                \A j \in 1..(Len(r.system_curve_points) - 1) :
                    /\ FLess(r.system_curve_points[j][1], r.system_curve_points[j + 1][1])
                    /\ FLess(r.system_curve_points[j][2], r.system_curve_points[j + 1][2])

\* a result record with its three points, for a valid input that is not the
\* reference
C11_Witness ==
    \E i \in 1..Len(calls) :
        /\ ValidInput(calls[i].inputs)
        /\ calls[i].inputs # Reference
        /\ IsResultRecord(calls[i].result)
        /\ Len(calls[i].result.system_curve_points) = 3

\* C12: in every result record for a valid input there are exactly three
\* system-curve points, their flows are 0.8, 1.0 and 1.2 times the Q_zone_GPM
\* of the record and the head of the 1.0 point is the H_op_ft of the record
\* (each within 0.05).
C12_CurveFromOperatingPoint ==
    \A i \in 1..Len(calls) :
        LET r == calls[i].result
        IN  (ValidInput(calls[i].inputs) /\ IsResultRecord(r)) =>
                /\ Len(r.system_curve_points) = 3
                /\ Within(r.system_curve_points[1][1],
                          FMul(Dec(8, 1), r.Q_zone_GPM), Dec(5, 2))
                /\ Within(r.system_curve_points[2][1], r.Q_zone_GPM, Dec(5, 2))
                /\ Within(r.system_curve_points[3][1],
                          FMul(Dec(12, 1), r.Q_zone_GPM), Dec(5, 2))
                /\ Within(r.system_curve_points[2][2], r.H_op_ft, Dec(5, 2))

\* C13: for the reference inputs the calculator returns area 200000, crop
\* volume 3000, pumped volume 3409.09 within 0.01, total flow 625.41 GPM
\* within 0.05, zone flow 156.35 GPM within 0.05, end head 10.50 m within 0.01
\* and total dynamic head 60.73 ft within 0.05.
C13_ReferenceValues ==
    \A i \in 1..Len(calls) :
        LET r == calls[i].result
        IN  calls[i].inputs = Reference =>
                /\ IsResultRecord(r)
                /\ r.A_total_m2 = IntToFloat(200000)
                /\ r.V_crop_m3_day = IntToFloat(3000)
                /\ Within(r.V_pump_m3_day, Dec(340909, 2), Dec(1, 2))
                /\ Within(r.Q_total_GPM, Dec(62541, 2), Dec(5, 2))
                /\ Within(r.Q_zone_GPM, Dec(15635, 2), Dec(5, 2))
                /\ Within(r.H_end_m, Dec(1050, 2), Dec(1, 2))
                /\ Within(r.H_op_ft, Dec(6073, 2), Dec(5, 2))

\* the calculator was invoked with the reference inputs
C13_Witness ==
    \E i \in 1..Len(calls) :
        /\ calls[i].inputs = Reference
        /\ IsResultRecord(calls[i].result)
        /\ IsFinite(calls[i].result.H_op_ft)

\* C14 as stated: BHP is (Q_zone_GPM x H_op_ft) / (3960 x 0.70) and for the
\* reference inputs it is 3.02 within 0.05.
C14_ReferenceBHP_302 ==
    \A i \in 1..Len(calls) :
        LET r == calls[i].result
        IN  IsResultRecord(r) =>
                /\ r.BHP = FDiv(FMul(r.Q_zone_GPM, r.H_op_ft),
                                FMul(IntToFloat(3960), Dec(70, 2)))
                /\ calls[i].inputs = Reference => Within(r.BHP, Dec(302, 2), Dec(5, 2))

\* C14 amended: BHP is (Q_zone_GPM x H_op_ft) / (3960 x 0.70), from the flow
\* of one zone, and for the reference inputs it is 3.43 within 0.05.
C14_ReferenceBHP ==
    \A i \in 1..Len(calls) :
        LET r == calls[i].result
        IN  IsResultRecord(r) =>
                /\ r.BHP = FDiv(FMul(r.Q_zone_GPM, r.H_op_ft),
                                FMul(IntToFloat(3960), Dec(70, 2)))
                /\ calls[i].inputs = Reference => Within(r.BHP, Dec(343, 2), Dec(5, 2))

\* the reference inputs, and an input with one zone, for which zone flow and
\* total flow coincide
C14_Witness ==
    /\ \E i \in 1..Len(calls) :
           /\ calls[i].inputs = Reference
           /\ IsResultRecord(calls[i].result)
           /\ calls[i].result.Q_zone_GPM # calls[i].result.Q_total_GPM
    /\ \E i \in 1..Len(calls) :
           /\ calls[i].inputs # Reference
           /\ IsResultRecord(calls[i].result)
           /\ IsFinite(calls[i].result.BHP)

IntFieldValues(r) == {r.N_zones, r.N_spr_zone, r.N_sprinkler_total}

\* the numbers a result record holds: its float fields, its int fields and
\* the coordinates of its system-curve points
FieldValues(r) ==
    {r[f] : f \in FloatFields}
        \cup {IntToFloat(n) : n \in IntFieldValues(r)}
        \cup {r.system_curve_points[i][j] : i \in 1..Len(r.system_curve_points),
                                            j \in 1..2}

\* x with d decimals has at most 9 digits, as every number of the report has
FitsFormat(x, d) == ~IsFinite(x) \/ NumDigits(Abs(x.m)) + x.e + d <= 9

\* a printed item is a field of r in some format, or text
Traceable(item, r) ==
    \/ item.k \notin {"fin", "inf", "nan", "int"}
    \/ item.k = "int" /\ item.n \in IntFieldValues(r)
    \/ \E x \in FieldValues(r) : FitsFormat(x, item.d) /\ Format(x, item.d) = item

\* C15: every number in the report of the viewer is a field of the result
\* record the report was made from, printed in some format; none is derived
\* by arithmetic on the fields.
C15_NoArithmeticInFormatter ==
    report_text.kind = "report" =>
        \A i \in 1..Len(report_text.body) :
            Traceable(report_text.body[i], report_text.of)

RedrawHandlers == {"set_active_plot", "show_plots", "plot_pump_system_curves"}

\* C16: after a redraw that follows a successful run, whose report is still
\* in the viewer, both plots are drawn and show the values of the stored
\* result record, whatever the entry fields hold by then.
C16_PlotsFromStoredResults ==
    (/\ handler \in RedrawHandlers
     /\ IsResultRecord(results)
     /\ report_text.kind = "report" /\ report_text.of = results) =>
        /\ ax_pressure.state = "drawn"
        /\ H_end_m(ax_pressure.P_end) = results.H_end_m
        /\ ax_pump.state = "drawn"
        /\ ax_pump.Q = results.Q_zone_GPM
        /\ ax_pump.H = results.H_op_ft

\* C17: in every result record for a valid input,
\* L_zone_EW x L_zone_NS x N_zones = A_total_m2.
C17_ZonesPartitionField ==
    \A i \in 1..Len(calls) :
        LET r == calls[i].result
        IN  (ValidInput(calls[i].inputs) /\ IsResultRecord(r)) =>
                FMul(FMul(r.L_zone_EW, r.L_zone_NS), IntToFloat(r.N_zones))
                    = r.A_total_m2

\* the handlers that start with the guard "if not self.results"
GuardedHandlers ==
    {"set_active_plot", "show_plots", "plot_pump_system_curves", "export_report"}

\* the handler did nothing but show one warning
OnlyWarned(effs) == Len(effs) = 1 /\ effs[1].op = "showwarning"

\* C18: while no run has invoked the calculator (self.results is None),
\* set_active_plot, show_plots, plot_pump_system_curves and export_report
\* only show a warning: no plot is redrawn, no tab is switched, no report
\* text is generated, no file is written and self.results stays None.
C18_GuardedBeforeFirstRun ==
    [][(results = None /\ handler' \in GuardedHandlers) =>
          /\ OnlyWarned(effects')
          /\ UNCHANGED <<results, ax_pressure, ax_pump, tab, report_text, file,
                         calc_display>>]_vars

\* each of the four handlers was called before any calculation, also after
\* an edit
C18_Witness ==
    /\ results = None
    /\ handler \in GuardedHandlers
    /\ OnlyWarned(effects)
    /\ inputs # labels

\* C19: while self.results holds the error record of the last calculation,
\* export_report, set_active_plot and plot_pump_system_curves are guarded as
\* before any run: they only show a warning and read no field of the error
\* record.
C19_GuardedAfterError ==
    (/\ IsErrorRecord(results)
     /\ handler \in {"export_report", "set_active_plot", "plot_pump_system_curves"}) =>
        OnlyWarned(effects)

\* the record run would pass to the calculator with the three fields the
\* calculator never reads at their defaults
UnusedAtDefaults ==
    [l \in DOMAIN labels |->
        IF l \in {IrrTime, SpacingX, SpacingY} THEN float(labels[l]).v
        ELSE Values[l]]

\* C20: what a run stores and shows is what a run with the same entries but
\* other numbers for Irrigation Time, Sprinkler Spacing X and Sprinkler
\* Spacing Y (their defaults) stores and shows.
C20_UnusedFieldsIgnored ==
    (handler = "run" /\ AllParse) =>
        /\ results = compute_irrigation_design(UnusedAtDefaults)
        /\ (IsResultRecord(results) /\ report_text.of = results) =>
               report_text.body =
                   _generate_report_content(compute_irrigation_design(UnusedAtDefaults))

\* a run with an irrigation time other than the default stored and showed
\* its results
C20_Witness ==
    /\ handler = "run"
    /\ AllParse
    /\ Values[IrrTime] # float(labels[IrrTime]).v
    /\ IsResultRecord(results)
    /\ report_text.kind = "report" /\ report_text.of = results

\* the keys of the record lines 72-99 return
ResultKeys ==
    {"A_total_m2", "ET_DESIGN_MM_DAY", "D_gross_m_day", "Q_total_GPM",
     "V_pump_m3_day", "Q_total_m3_s", "Q_total_L_s", "V_crop_m3_day",
     "Q_total_m3_hr", "N_sprinkler_total", "N_zones", "N_spr_zone",
     "Q_zone_GPM", "qs_L_s", "H_op_m", "H_op_ft", "H_end_m", "H_lat_loss_m",
     "H_sub_loss_m", "H_mainline_loss_m", "H_fittings_loss_m", "BHP",
     "system_curve_points", "L_zone_EW", "L_zone_NS", "h_f_80mm_lat"}

\* the calculator read a zero divisor from the record v
ZeroDivisor(v) ==
    /\ {EvapLoss, NumZones} \subseteq DOMAIN v
    /\ \/ v[EvapLoss] = IntToFloat(100)
       \/ IsFinite(v[NumZones]) /\ Trunc(v[NumZones]) = 0

\* C21: compute_irrigation_design never raises to its caller: for every
\* input record, also one with a missing field or a zero divisor, what it
\* returns has either the single key "error" or every result field and no
\* "error" key, never a mixture.
C21_ErrorOrCompleteRecord ==
    \A i \in 1..Len(calls) :
        \/ DOMAIN calls[i].result = {"error"}
        \/ DOMAIN calls[i].result = ResultKeys

\* the calculator returned an error record for a record with a missing
\* field, an error record for a zero divisor, and a result record
C21_Witness ==
    /\ \E i \in 1..Len(calls) :
          /\ DOMAIN calls[i].inputs # DOMAIN labels
          /\ DOMAIN calls[i].result = {"error"}
    /\ \E i \in 1..Len(calls) :
          /\ ZeroDivisor(calls[i].inputs)
          /\ DOMAIN calls[i].result = {"error"}
    /\ \E i \in 1..Len(calls) : DOMAIN calls[i].result = ResultKeys

====
